---- MODULE Spec2Model ----
(***************************************************************************)
(* Model of the interactive galaxy scene: App's explore toggle, Scene's    *)
(* hover flags, the per-frame callbacks of Galaxy, WisdomSystem,           *)
(* GoldenSystem, OrbitControls and CameraRig, and generateGalaxyData.      *)
(*                                                                         *)
(* Numbers.  Scales and opacities are fixed-point in units of 1/ScaleUnit, *)
(* camera coordinates in units of 1/PosUnit, a frame delta is an integer   *)
(* number of 1/DeltaDen seconds.  THREE.MathUtils.lerp(x, y, t) is         *)
(* (1 - t) * x + t * y; with t = tn / td its exact value times td is       *)
(* lerpNum(x, y, tn, td).                                                  *)
(***************************************************************************)
EXTENDS Integers, Sequences, FiniteSets, TLC

VARIABLES
    exploreMode,      \* App: useState(false), passed to Scene as `active`
    hoveringWisdom,   \* Scene: useState(false)
    hoveringGolden,   \* Scene: useState(false)
    cursor,           \* document.body.style.cursor
    hovered,          \* the system whose hit volume the pointer is on ("" for none)
    mouse,            \* useThree().mouse, normalised pointer coordinates
    wisdomScale,      \* WisdomSystem groupRef.current.scale.x
    goldenScale,      \* GoldenSystem groupRef.current.scale.x
    opacity1,         \* Galaxy material1Ref.current.opacity (main stars)
    opacity2,         \* Galaxy material2Ref.current.opacity (star dust)
    cameraPosition,   \* camera.position
    cameraLookAt,     \* the point the camera was last oriented at
    targetPos,        \* CameraRig targetPos after its last frame
    pointClouds,      \* the useMemo caches: cloud -> number of the generation it holds
    frames,           \* frames rendered so far
    frameLog,         \* per-frame callbacks run by the last step, in order
    cameraWriters,    \* components that wrote the camera pose in the last step
    onHoverCalled,    \* the onHover calls made by the last step
    lastEvent,        \* the event the last step handled
    genPc, genOptions, genCount, genI, positions, colors, genResult,
    genWritten,       \* the array slots the loop has written so far
    scaleSystem, scaleNum, scaleDen, scaleDelta, scaleTicks,
    tickDelta,        \* the delta the last single-callback tick ran with
    orbitSystem,      \* the system whose orbit step is ticking
    orbitActive,      \* its `active` prop
    orbitX, orbitZ,   \* groupRef.current.position.x / .z, times orbitDen
    orbitY,           \* groupRef.current.position.y
    orbitDen,
    orbitAngle,       \* the angle turned so far, in units of OrbitUnit
    orbitTicks

mainVars == <<exploreMode, hoveringWisdom, hoveringGolden, cursor, hovered, mouse,
              wisdomScale, goldenScale, opacity1, opacity2, cameraPosition,
              cameraLookAt, targetPos, pointClouds, frames, frameLog,
              cameraWriters, onHoverCalled, lastEvent>>
genVars == <<genPc, genOptions, genCount, genI, positions, colors, genResult, genWritten>>
scaleVars == <<scaleSystem, scaleNum, scaleDen, scaleDelta, scaleTicks>>
tickVars == <<tickDelta, orbitSystem, orbitActive, orbitX, orbitZ, orbitY, orbitDen,
              orbitAngle, orbitTicks>>
vars == <<mainVars, genVars, scaleVars, tickVars>>

----------------------------------------------------------------------------
(* Units and bounds *)

ScaleUnit == 1000
PosUnit == 100
DeltaDen == 12
MaxFrames == 2
DeltaSet == {0, 36}
PointerPositions == {<<0, 0>>, <<1, -1>>}
Origin == <<0, 0, 0>>

----------------------------------------------------------------------------
(* THREE.MathUtils.lerp and Vector3.lerp *)

lerpNum(x, y, tn, td) == (td - tn) * x + tn * y

lerp(x, y, tn, td) == lerpNum(x, y, tn, td) \div td

Vector3Lerp(p, v, tn, td) ==
    <<lerp(p[1], v[1], tn, td), lerp(p[2], v[2], tn, td), lerp(p[3], v[3], tn, td)>>

----------------------------------------------------------------------------
(* Scene: derived props *)

\* Mutant of getCurrentFocus: the Golden system takes precedence.
getCurrentFocusGoldenFirst(hw, hg) ==
    IF hg THEN "golden" ELSE IF hw THEN "wisdom" ELSE ""

getCurrentFocus(hw, hg) ==
    IF hw THEN "wisdom" ELSE IF hg THEN "golden" ELSE ""

GalaxyDimmed(hw, hg) == hw \/ hg

----------------------------------------------------------------------------
(* React render: useMemo caches and the props R3F re-applies when they change *)

Clouds == {"mainStars", "starDust", "clusterPositions", "planetPositions"}

\* Mutant of useMemo: no dependency list, the factory runs on every render.
useMemoNoDeps(cached, fresh) == fresh

\* useMemo(factory, []): the factory runs on mount only; a later render
\* returns the cached value because the empty dependency list never changes.
\* `fresh` is what the factory would return if it ran again.
useMemo(cached, fresh) == cached

\* One render of Galaxy, WisdomSystem and GoldenSystem after mount.  Every
\* run of a factory draws new random points, so a cloud is identified by
\* the number of the generation that produced it.
RenderClouds(clouds) ==
    [c \in Clouds |-> useMemo(clouds[c], clouds[c] + 1)]

\* <group ref={groupRef} scale={0.001}>: the prop never changes, so a
\* re-render leaves the object's scale as the frame callback wrote it.
WisdomScaleProp(active, current) == current

\* <group ref={groupRef} scale={active ? 1 : 0.001}>: when `active` changes
\* the prop changes and R3F writes it to the object.
GoldenScaleProp(oldActive, active, current) ==
    IF oldActive = active THEN current
    ELSE IF active THEN ScaleUnit ELSE 1

----------------------------------------------------------------------------
(* The per-frame callbacks.  Each takes the scene state `s` (a record of the *)
(* objects the callbacks write), the props of the last render and the frame *)
(* delta, and returns the scene state after the callback.                  *)

\* Galaxy useFrame: both layer opacities move toward their target by
\* lerp(opacity, target, delta * 4).  (The group's rotation.y, which nothing
\* else reads, is left out.)
TargetOpacity1(dimmed) == IF dimmed THEN ScaleUnit \div 10 ELSE ScaleUnit

\* Mutant of TargetOpacity2: the dust layer dimmed to 10% like the star layer.
TargetOpacity2TenPercent(dimmed) ==
    IF dimmed THEN (4 * ScaleUnit) \div 100 ELSE (4 * ScaleUnit) \div 10

TargetOpacity2(dimmed) == IF dimmed THEN (2 * ScaleUnit) \div 100 ELSE (4 * ScaleUnit) \div 10

GalaxyFrame(s, active, hw, hg, m, delta) ==
    [s EXCEPT !.opacity1 = lerp(s.opacity1, TargetOpacity1(GalaxyDimmed(hw, hg)), 4 * delta, DeltaDen),
              !.opacity2 = lerp(s.opacity2, TargetOpacity2(GalaxyDimmed(hw, hg)), 4 * delta, DeltaDen),
              !.frameLog = Append(s.frameLog, "Galaxy")]

\* Step 4 of WisdomSystem / GoldenSystem useFrame: the entrance/exit scale.
TargetScale(active) == IF active THEN ScaleUnit ELSE 1

NewScale(currentScale, active, delta) ==
    lerp(currentScale, TargetScale(active), 3 * delta, DeltaDen)

\* WisdomSystem / GoldenSystem useFrame.  Step 1, the orbit of the group's
\* position, is modelled exactly by OrbitTick; steps 2 and 3 turn and breathe
\* decorations that nothing else reads.
WisdomFrame(s, active, hw, hg, m, delta) ==
    [s EXCEPT !.wisdomScale = NewScale(s.wisdomScale, active, delta),
              !.frameLog = Append(s.frameLog, "WisdomSystem")]

GoldenFrame(s, active, hw, hg, m, delta) ==
    [s EXCEPT !.goldenScale = NewScale(s.goldenScale, active, delta),
              !.frameLog = Append(s.frameLog, "GoldenSystem")]

\* Integer square root, for the distance of the camera from the orbit target.
RECURSIVE IsqrtIn(_, _, _)
IsqrtIn(n, lo, hi) ==
    IF lo >= hi THEN lo
    ELSE LET mid == (lo + hi + 1) \div 2
         IN  IF mid * mid <= n THEN IsqrtIn(n, mid, hi) ELSE IsqrtIn(n, lo, mid - 1)

Isqrt(n) == IsqrtIn(n, 0, 40000)

Dot(p, q) == p[1] * q[1] + p[2] * q[2] + p[3] * q[3]

\* <OrbitControls minDistance={5} maxDistance={20} enablePan={false} ...>:
\* its frame callback (priority -1) runs controls.update(), which rewrites
\* camera.position as target + offset with the offset's length clamped to
\* [minDistance, maxDistance], and calls camera.lookAt(target); the target
\* stays at the origin because panning is disabled.
MinDistance == 5
MaxDistance == 20

ClampDistance(p) ==
    LET d == Isqrt(Dot(p, p))
        lo == MinDistance * PosUnit
        hi == MaxDistance * PosUnit
    IN  IF d = 0 \/ (lo <= d /\ d <= hi) THEN p
        ELSE LET r == IF d < lo THEN lo ELSE hi
             IN  <<(p[1] * r) \div d, (p[2] * r) \div d, (p[3] * r) \div d>>

\* update() also clamps the polar angle to [0.2 pi, 0.8 pi]; the clamp is not
\* modelled, the camera stays inside these limits (cos^2(0.2 pi) > 13 / 20).
PolarAngleWithinLimits ==
    20 * cameraPosition[2] * cameraPosition[2] <= 13 * Dot(cameraPosition, cameraPosition)

OrbitControlsFrame(s, active, hw, hg, m, delta) ==
    [s EXCEPT !.cameraPosition = ClampDistance(s.cameraPosition),
              !.cameraLookAt = Origin,
              !.cameraWriters = Append(s.cameraWriters, "OrbitControls"),
              !.frameLog = Append(s.frameLog, "OrbitControls")]

\* CameraRig useFrame: the desired position (targetPos) ...
ExploreBase(focusTarget) ==
    IF focusTarget = "wisdom" THEN <<-PosUnit, (12 * PosUnit) \div 10, (38 * PosUnit) \div 10>>
    ELSE IF focusTarget = "golden" THEN <<PosUnit, PosUnit, 4 * PosUnit>>
    ELSE <<0, (15 * PosUnit) \div 10, (35 * PosUnit) \div 10>>

\* Mutant of DesiredPosition: the focus offsets applied in orbit mode too.
DesiredPositionFocusInOrbit(active, focusTarget, m) ==
    LET b == ExploreBase(focusTarget)
    IN  IF active
        THEN <<b[1] + (m[1] * PosUnit) \div 10, b[2] + (m[2] * PosUnit) \div 10, b[3]>>
        ELSE <<m[1] * 5 * PosUnit + b[1], m[2] * 2 * PosUnit + 6 * PosUnit, 12 * PosUnit>>

\* Mutant of DesiredPosition: the pointer perturbation added only when a
\* system is focused.
DesiredPositionFixedBaseline(active, focusTarget, m) ==
    LET b == ExploreBase(focusTarget)
    IN  IF active
        THEN IF focusTarget = "" THEN b
             ELSE <<b[1] + (m[1] * PosUnit) \div 10, b[2] + (m[2] * PosUnit) \div 10, b[3]>>
        ELSE <<m[1] * 5 * PosUnit, m[2] * 2 * PosUnit + 6 * PosUnit, 12 * PosUnit>>

DesiredPosition(active, focusTarget, m) ==
    IF active
    THEN LET b == ExploreBase(focusTarget)
         IN  <<b[1] + (m[1] * PosUnit) \div 10, b[2] + (m[2] * PosUnit) \div 10, b[3]>>
    ELSE <<m[1] * 5 * PosUnit, m[2] * 2 * PosUnit + 6 * PosUnit, 12 * PosUnit>>

\* Mutant of CameraRigFrame: the camera is oriented at targetPos instead of
\* the origin.
CameraRigFrameLooksAtTarget(s, active, hw, hg, m, delta) ==
    LET t == DesiredPosition(active, getCurrentFocus(hw, hg), m)
        tn == IF active THEN 4 * delta ELSE 8 * delta
    IN  [s EXCEPT !.targetPos = t,
                  !.cameraPosition = Vector3Lerp(s.cameraPosition, t, tn, 10 * DeltaDen),
                  !.cameraLookAt = t,
                  !.cameraWriters = Append(s.cameraWriters, "CameraRig"),
                  !.frameLog = Append(s.frameLog, "CameraRig")]

\* ... and the move toward it: lerp by delta * 0.4 in explore mode, by
\* delta * 0.8 in orbit mode, then lookAt(0, 0, 0).
CameraRigFrame(s, active, hw, hg, m, delta) ==
    LET t == DesiredPosition(active, getCurrentFocus(hw, hg), m)
        tn == IF active THEN 4 * delta ELSE 8 * delta
    IN  [s EXCEPT !.targetPos = t,
                  !.cameraPosition = Vector3Lerp(s.cameraPosition, t, tn, 10 * DeltaDen),
                  !.cameraLookAt = Origin,
                  !.cameraWriters = Append(s.cameraWriters, "CameraRig"),
                  !.frameLog = Append(s.frameLog, "CameraRig")]

----------------------------------------------------------------------------
(* The render loop.  useFrame subscribes a callback in a layout effect, so *)
(* callbacks subscribe in the order their components are mounted in Scene's *)
(* JSX; the subscriber list is kept sorted by priority (stable), and every *)
(* frame runs the list front to back with the same delta.                  *)

\* Mutant of MountOrder: CameraRig mounted before the Float group.
MountOrderCameraFirst ==
    << [name |-> "CameraRig", priority |-> 0],
       [name |-> "Galaxy", priority |-> 0],
       [name |-> "WisdomSystem", priority |-> 0],
       [name |-> "GoldenSystem", priority |-> 0],
       [name |-> "OrbitControls", priority |-> -1] >>

MountOrder ==
    << [name |-> "Galaxy", priority |-> 0],
       [name |-> "WisdomSystem", priority |-> 0],
       [name |-> "GoldenSystem", priority |-> 0],
       [name |-> "OrbitControls", priority |-> -1],
       [name |-> "CameraRig", priority |-> 0] >>

\* subscribers.push(sub); subscribers.sort((a, b) => a.priority - b.priority)
RECURSIVE InsertByPriority(_, _)
InsertByPriority(subs, sub) ==
    IF subs = << >> THEN <<sub>>
    ELSE IF subs[Len(subs)].priority <= sub.priority THEN Append(subs, sub)
    ELSE Append(InsertByPriority(SubSeq(subs, 1, Len(subs) - 1), sub), subs[Len(subs)])

RECURSIVE SubscribeAll(_, _)
SubscribeAll(subs, mounts) ==
    IF mounts = << >> THEN subs
    ELSE SubscribeAll(InsertByPriority(subs, Head(mounts)), Tail(mounts))

subscribers == SubscribeAll(<< >>, MountOrder)

RunCallback(name, s, active, hw, hg, m, delta) ==
    CASE name = "Galaxy" -> GalaxyFrame(s, active, hw, hg, m, delta)
      [] name = "WisdomSystem" -> WisdomFrame(s, active, hw, hg, m, delta)
      [] name = "GoldenSystem" -> GoldenFrame(s, active, hw, hg, m, delta)
      [] name = "OrbitControls" -> OrbitControlsFrame(s, active, hw, hg, m, delta)
      [] name = "CameraRig" -> CameraRigFrame(s, active, hw, hg, m, delta)

RECURSIVE RunSubscribers(_, _, _, _, _, _, _)
RunSubscribers(subs, s, active, hw, hg, m, delta) ==
    IF subs = << >> THEN s
    ELSE RunSubscribers(Tail(subs), RunCallback(Head(subs).name, s, active, hw, hg, m, delta),
                        active, hw, hg, m, delta)

----------------------------------------------------------------------------
(* The scene after mount, and its operations *)

GenIdle ==
    /\ genPc = "idle" /\ genOptions = [radius |-> 0] /\ genCount = 0 /\ genI = 0
    /\ positions = << >> /\ colors = << >> /\ genResult = "none" /\ genWritten = {}

ScaleIdle ==
    /\ scaleSystem = "none" /\ scaleNum = 0 /\ scaleDen = 1 /\ scaleDelta = 0 /\ scaleTicks = 0

TickIdle ==
    /\ tickDelta = 0 /\ orbitSystem = "none" /\ orbitActive = FALSE
    /\ orbitX = 0 /\ orbitZ = 0 /\ orbitY = 0 /\ orbitDen = 1
    /\ orbitAngle = 0 /\ orbitTicks = 0

\* App mounts with exploreMode = false, Scene with both hover flags false;
\* <Canvas camera={{ position: [0, 6, 12] }}> looks at the origin; the first
\* render runs every useMemo factory once; material1 has the default opacity
\* 1, material2 opacity={0.4}; both system groups mount with scale 0.001.
Init ==
    /\ exploreMode = FALSE
    /\ hoveringWisdom = FALSE
    /\ hoveringGolden = FALSE
    /\ cursor = ""
    /\ hovered = ""
    /\ mouse = <<0, 0>>
    /\ wisdomScale = 1
    /\ goldenScale = 1
    /\ opacity1 = ScaleUnit
    /\ opacity2 = (4 * ScaleUnit) \div 10
    /\ cameraPosition = <<0, 6 * PosUnit, 12 * PosUnit>>
    /\ cameraLookAt = Origin
    /\ targetPos = Origin
    /\ pointClouds = [c \in Clouds |-> 1]
    /\ frames = 0
    /\ frameLog = << >>
    /\ cameraWriters = << >>
    /\ onHoverCalled = << >>
    /\ lastEvent = "mount"
    /\ GenIdle
    /\ ScaleIdle
    /\ TickIdle

\* The re-render that follows a state change in App or Scene (React skips
\* it when the state setter was not called or stored an equal value).
Render(changed, oldActive, active) ==
    IF changed
    THEN /\ pointClouds' = RenderClouds(pointClouds)
         /\ wisdomScale' = WisdomScaleProp(active, wisdomScale)
         /\ goldenScale' = GoldenScaleProp(oldActive, active, goldenScale)
    ELSE UNCHANGED <<pointClouds, wisdomScale, goldenScale>>

NoFrame ==
    /\ frameLog' = << >>
    /\ cameraWriters' = << >>
    /\ UNCHANGED <<opacity1, opacity2, cameraPosition, cameraLookAt, targetPos, frames>>
    /\ UNCHANGED <<genVars, scaleVars, tickVars>>

\* App.handleExplore / App.handleReturn: setExploreMode, then the re-render.
SetExploreMode(value, event) ==
    /\ exploreMode' = value
    /\ lastEvent' = event
    /\ Render(value # exploreMode, exploreMode, value)
    /\ onHoverCalled' = << >>
    /\ NoFrame
    /\ UNCHANGED <<hoveringWisdom, hoveringGolden, cursor, hovered, mouse>>

handleExplore == SetExploreMode(TRUE, "handleExplore")

handleReturn == SetExploreMode(FALSE, "handleReturn")

\* Mutant of HandlePointer: the `if (!active) return;` guard is missing.
HandlePointerUnguarded(active, hovering, flag, cur) ==
    [called |-> TRUE, flag |-> hovering,
     cursor |-> IF hovering THEN "pointer" ELSE "auto"]

\* handlePointerOver / handlePointerOut of a system: `if (!active) return;`
\* then onHover(hovering) and the cursor style.  The result is
\* [called, hovering, cursor]: whether onHover ran, the owner's flag and the
\* cursor afterwards.
HandlePointer(active, hovering, flag, cur) ==
    IF ~active THEN [called |-> FALSE, flag |-> flag, cursor |-> cur]
    ELSE [called |-> TRUE, flag |-> hovering,
          cursor |-> IF hovering THEN "pointer" ELSE "auto"]

\* onPointerOver / onPointerOut of a system's hit group: the event system
\* calls onPointerOver when the pointer comes onto the hit volume and
\* onPointerOut when it leaves it, and the pointer is on one system at most
\* (the pointer-over handler stops propagation to the system behind).
PointerEventFires(system, hovering) ==
    /\ hovered = IF hovering THEN "" ELSE system
    /\ hovered' = IF hovering THEN system ELSE ""

WisdomPointer(hovering, event) ==
    LET r == HandlePointer(exploreMode, hovering, hoveringWisdom, cursor)
    IN  /\ PointerEventFires("wisdom", hovering)
        /\ hoveringWisdom' = r.flag
        /\ cursor' = r.cursor
        /\ onHoverCalled' = IF r.called THEN <<[system |-> "wisdom", hovering |-> hovering]>> ELSE << >>
        /\ Render(r.flag # hoveringWisdom, exploreMode, exploreMode)
        /\ lastEvent' = event
        /\ NoFrame
        /\ UNCHANGED <<exploreMode, hoveringGolden, mouse>>

\* Mutant of GoldenPointer: GoldenSystem handed Wisdom's setter,
\* onHover={setHoveringWisdom}.
GoldenPointerCrossWired(hovering, event) ==
    LET r == HandlePointer(exploreMode, hovering, hoveringWisdom, cursor)
    IN  /\ PointerEventFires("golden", hovering)
        /\ hoveringWisdom' = r.flag
        /\ cursor' = r.cursor
        /\ onHoverCalled' = IF r.called THEN <<[system |-> "golden", hovering |-> hovering]>> ELSE << >>
        /\ Render(r.flag # hoveringWisdom, exploreMode, exploreMode)
        /\ lastEvent' = event
        /\ NoFrame
        /\ UNCHANGED <<exploreMode, hoveringGolden, mouse>>

GoldenPointer(hovering, event) ==
    LET r == HandlePointer(exploreMode, hovering, hoveringGolden, cursor)
    IN  /\ PointerEventFires("golden", hovering)
        /\ hoveringGolden' = r.flag
        /\ cursor' = r.cursor
        /\ onHoverCalled' = IF r.called THEN <<[system |-> "golden", hovering |-> hovering]>> ELSE << >>
        /\ Render(r.flag # hoveringGolden, exploreMode, exploreMode)
        /\ lastEvent' = event
        /\ NoFrame
        /\ UNCHANGED <<exploreMode, hoveringWisdom, mouse>>

WisdomPointerOver == WisdomPointer(TRUE, "WisdomPointerOver")

WisdomPointerOut == WisdomPointer(FALSE, "WisdomPointerOut")

GoldenPointerOver == GoldenPointer(TRUE, "GoldenPointerOver")

GoldenPointerOut == GoldenPointer(FALSE, "GoldenPointerOut")

\* The canvas' pointermove: R3F stores the normalised pointer in state.mouse.
PointerMove ==
    /\ \E p \in PointerPositions : p # mouse /\ mouse' = p
    /\ onHoverCalled' = << >>
    /\ lastEvent' = "PointerMove"
    /\ NoFrame
    /\ UNCHANGED <<exploreMode, hoveringWisdom, hoveringGolden, cursor, hovered,
                   wisdomScale, goldenScale, pointClouds>>

SceneState ==
    [wisdomScale |-> wisdomScale, goldenScale |-> goldenScale,
     opacity1 |-> opacity1, opacity2 |-> opacity2,
     cameraPosition |-> cameraPosition, cameraLookAt |-> cameraLookAt,
     targetPos |-> targetPos, frameLog |-> << >>, cameraWriters |-> << >>]

\* One frame of the render loop: every subscriber, in list order.
Frame ==
    /\ frames < MaxFrames
    /\ \E delta \in DeltaSet :
         LET s == RunSubscribers(subscribers, SceneState, exploreMode,
                                 hoveringWisdom, hoveringGolden, mouse, delta)
         IN  /\ wisdomScale' = s.wisdomScale
             /\ goldenScale' = s.goldenScale
             /\ opacity1' = s.opacity1
             /\ opacity2' = s.opacity2
             /\ cameraPosition' = s.cameraPosition
             /\ cameraLookAt' = s.cameraLookAt
             /\ targetPos' = s.targetPos
             /\ frameLog' = s.frameLog
             /\ cameraWriters' = s.cameraWriters
    /\ frames' = frames + 1
    /\ onHoverCalled' = << >>
    /\ lastEvent' = "Frame"
    /\ UNCHANGED <<exploreMode, hoveringWisdom, hoveringGolden, cursor, hovered, mouse,
                   pointClouds>>
    /\ UNCHANGED <<genVars, scaleVars, tickVars>>

Next ==
    \/ handleExplore
    \/ handleReturn
    \/ WisdomPointerOver
    \/ WisdomPointerOut
    \/ GoldenPointerOver
    \/ GoldenPointerOut
    \/ PointerMove
    \/ Frame

Spec == Init /\ [][Next]_vars

----------------------------------------------------------------------------
(* generateGalaxyData(count, options).                                     *)
(*                                                                         *)
(* Math.random() returns a value in [0, 1): a draw is a numerator k over   *)
(* RandSteps, taken from RandomDraws.  Angles are whole quarter turns, so  *)
(* that cos and sin are exact: branches is 1, 2 or 4 and options.spin is   *)
(* given as the number of quarter turns per 1/RandSteps of radius;         *)
(* randomnessPower is 1 or 2.                                              *)
(* A position coordinate is stored times PosDen = RandSteps^3, a colour    *)
(* channel (0..255) times ColorDen = 40 * RandSteps.  A stored number is   *)
(* a record: Num(v) for the value v, NaN for not-a-number.  The rounding   *)
(* of the Float32Array stores is left out.                                 *)

RandSteps == 20
RandomDraws == {0, RandSteps - 1}
CountSet == {-1, 0, 1, 2}
GalaxyOptions ==
    [radius : {-1, 0, 1}, branches : {4}, spin : {1},
     randomness : {0, 1}, randomnessPower : {1, 2}]
Draws ==
    [r : RandomDraws, x : RandomDraws, sx : RandomDraws, y : RandomDraws, sy : RandomDraws,
     z : RandomDraws, sz : RandomDraws, cr : RandomDraws, cg : RandomDraws, cb : RandomDraws]

PosDen == RandSteps * RandSteps * RandSteps
ColorDen == 40 * RandSteps

\* insideColor '#ff6030', outsideColor '#1b3984'
colorInside == <<255, 96, 48>>
colorOutside == <<27, 57, 132>>

Num(v) == [nan |-> FALSE, v |-> v]
NaN == [nan |-> TRUE, v |-> 0]

RECURSIVE IntPow(_, _)
IntPow(b, e) == IF e = 0 THEN 1 ELSE b * IntPow(b, e - 1)

\* Math.pow(u, randomnessPower) for u = k / RandSteps, times RandSteps^2
PowNum(k, power) == IntPow(k, power) * IntPow(RandSteps, 2 - power)

\* Math.random() < 0.5 ? 1 : -1
RandomSign(k) == IF 2 * k < RandSteps THEN 1 ELSE -1

\* cos and sin of q quarter turns
Cos4(q) == CASE q % 4 = 0 -> 1 [] q % 4 = 2 -> -1 [] OTHER -> 0
Sin4(q) == CASE q % 4 = 1 -> 1 [] q % 4 = 3 -> -1 [] OTHER -> 0

\* x / y in JavaScript for the one division of the loop, r / radius, whose
\* numerator is Math.random() * radius: 0 / 0 is NaN.
Divide(x, y) == IF y = 0 THEN NaN ELSE Num(x \div y)

\* r times RandSteps
RadialDistance(k, radius) == k * radius

\* Mutant of RandomOffset: the offset is not scaled by options.randomness.
RandomOffsetUnscaled(k, ks, options, rN) ==
    PowNum(k, options.randomnessPower) * RandomSign(ks) * rN

\* Math.pow(Math.random(), randomnessPower) * sign * randomness * r, times PosDen
RandomOffset(k, ks, options, rN) ==
    PowNum(k, options.randomnessPower) * RandomSign(ks) * options.randomness * rN

\* branchAngle + spinAngle, in quarter turns
ArmAngle(i, options, rN) ==
    ((i % options.branches) * 4) \div options.branches + rN * options.spin

GalaxyPosition(i, options, d) ==
    LET rN == RadialDistance(d.r, options.radius)
        a == ArmAngle(i, options, rN)
        armScale == RandSteps * RandSteps
    IN  << Num(Cos4(a) * rN * armScale + RandomOffset(d.x, d.sx, options, rN)),
           Num(RandomOffset(d.y, d.sy, options, rN)),
           Num(Sin4(a) * rN * armScale + RandomOffset(d.z, d.sz, options, rN)) >>

\* mixedColor.lerp(colorOutside, r / radius), then the jitter
\* (Math.random() - 0.5) * 0.05 on the channel, times ColorDen
MixedChannel(cIn, cOut, alpha, kj) ==
    IF alpha.nan THEN NaN
    ELSE Num(40 * (RandSteps * cIn + (cOut - cIn) * alpha.v) + 255 * (2 * kj - RandSteps))

GalaxyColor(options, d) ==
    LET alpha == Divide(RadialDistance(d.r, options.radius), options.radius)
    IN  << MixedChannel(colorInside[1], colorOutside[1], alpha, d.cr),
           MixedChannel(colorInside[2], colorOutside[2], alpha, d.cg),
           MixedChannel(colorInside[3], colorOutside[3], alpha, d.cb) >>

\* new Float32Array(n): n zeros; a negative length throws a RangeError
ValidArrayLength(n) == n >= 0

Float32Array(n) == [k \in 1..n |-> Num(0)]

WriteTriple(array, i3, t) ==
    [array EXCEPT ![i3 + 1] = t[1], ![i3 + 2] = t[2], ![i3 + 3] = t[3]]

\* the slots array[i3], array[i3 + 1], array[i3 + 2] (sequences count from 1)
TripleSlots(i3) == {i3 + 1, i3 + 2, i3 + 3}

\* Mutant of LoopGuard: the loop stops one iteration early.
LoopGuardOffByOne(i, count) == i < count - 1

\* for (let i = 0; i < count; i++)
LoopGuard(i, count) == i < count

MainIdle ==
    /\ exploreMode = FALSE /\ hoveringWisdom = FALSE /\ hoveringGolden = FALSE
    /\ cursor = "" /\ hovered = "" /\ mouse = <<0, 0>>
    /\ wisdomScale = 1 /\ goldenScale = 1
    /\ opacity1 = ScaleUnit /\ opacity2 = (4 * ScaleUnit) \div 10
    /\ cameraPosition = <<0, 6 * PosUnit, 12 * PosUnit>> /\ cameraLookAt = Origin
    /\ targetPos = Origin /\ pointClouds = [c \in Clouds |-> 1] /\ frames = 0
    /\ frameLog = << >> /\ cameraWriters = << >> /\ onHoverCalled = << >>
    /\ lastEvent = "mount"

\* A call generateGalaxyData(count, options)
GenInit ==
    /\ genPc = "call"
    /\ genOptions \in GalaxyOptions
    /\ genCount \in CountSet
    /\ genI = 0
    /\ positions = << >>
    /\ colors = << >>
    /\ genResult = "none"
    /\ genWritten = {}
    /\ MainIdle
    /\ ScaleIdle
    /\ TickIdle

\* const positions = new Float32Array(count * 3); const colors = ...
GenAllocate ==
    /\ genPc = "call"
    /\ IF ~ValidArrayLength(genCount * 3)
       THEN /\ genPc' = "done"
            /\ genResult' = "RangeError"
            /\ UNCHANGED <<positions, colors>>
       ELSE /\ genPc' = "loop"
            /\ positions' = Float32Array(genCount * 3)
            /\ colors' = Float32Array(genCount * 3)
            /\ UNCHANGED genResult
    /\ UNCHANGED <<genOptions, genCount, genI, genWritten, mainVars, scaleVars, tickVars>>

\* One iteration of for (let i = 0; i < count; i++)
GenPoint ==
    /\ genPc = "loop"
    /\ LoopGuard(genI, genCount)
    /\ \E d \in Draws :
         /\ positions' = WriteTriple(positions, genI * 3, GalaxyPosition(genI, genOptions, d))
         /\ colors' = WriteTriple(colors, genI * 3, GalaxyColor(genOptions, d))
    /\ genWritten' = genWritten \cup TripleSlots(genI * 3)
    /\ genI' = genI + 1
    /\ UNCHANGED <<genPc, genOptions, genCount, genResult, mainVars, scaleVars, tickVars>>

\* return { positions, colors }
GenReturn ==
    /\ genPc = "loop"
    /\ ~LoopGuard(genI, genCount)
    /\ genPc' = "done"
    /\ genResult' = "returned"
    /\ UNCHANGED <<genOptions, genCount, genI, positions, colors, genWritten, mainVars, scaleVars, tickVars>>

GenNext == GenAllocate \/ GenPoint \/ GenReturn

SpecGen == GenInit /\ [][GenNext]_vars

----------------------------------------------------------------------------
(* The entrance/exit scale of one system, exactly.  The scale is the       *)
(* rational scaleNum / scaleDen in units of 1/ScaleUnit; the group mounts  *)
(* with scale 0.001, explore mode is on and every frame has the same delta. *)

MaxTicks == 6
ScaleDeltas == 1..8

RECURSIVE GCD(_, _)
GCD(a, b) == IF b = 0 THEN a ELSE GCD(b, a % b)

\* lerp(currentScale, targetScale, delta * 3) for currentScale = num / den
ExactNewScale(num, den, active, delta) ==
    LET g == GCD(3 * delta, DeltaDen)
        tn == (3 * delta) \div g
        td == DeltaDen \div g
    IN  [num |-> lerpNum(num, TargetScale(active) * den, tn, td), den |-> den * td]

ScaleInit ==
    /\ scaleSystem \in {"wisdom", "golden"}
    /\ scaleDelta \in ScaleDeltas
    /\ scaleNum = 1
    /\ scaleDen = 1
    /\ scaleTicks = 0
    /\ MainIdle
    /\ GenIdle
    /\ TickIdle

\* Step 4 of the system's useFrame with active = true
ScaleTick ==
    /\ scaleTicks < MaxTicks
    /\ LET n == ExactNewScale(scaleNum, scaleDen, TRUE, scaleDelta)
       IN  scaleNum' = n.num /\ scaleDen' = n.den
    /\ scaleTicks' = scaleTicks + 1
    /\ UNCHANGED <<scaleSystem, scaleDelta, mainVars, genVars, tickVars>>

SpecScale == ScaleInit /\ [][ScaleTick]_vars

----------------------------------------------------------------------------
(* The Galaxy frame callback alone, as a function of the layer opacities,  *)
(* the hover flags and the frame delta.                                    *)

MaxGalaxyTicks == 1
OpacityInputs == {20, 100, 250, 400, 1000}
GalaxyDeltas == {-3, 0, 1, 3}

GalaxyInit ==
    /\ exploreMode \in BOOLEAN
    /\ hoveringWisdom \in BOOLEAN
    /\ hoveringGolden \in BOOLEAN
    /\ opacity1 \in OpacityInputs
    /\ opacity2 \in OpacityInputs
    /\ cursor = "" /\ hovered = "" /\ mouse = <<0, 0>>
    /\ wisdomScale = 1 /\ goldenScale = 1
    /\ cameraPosition = <<0, 6 * PosUnit, 12 * PosUnit>> /\ cameraLookAt = Origin
    /\ targetPos = Origin /\ pointClouds = [c \in Clouds |-> 1] /\ frames = 0
    /\ frameLog = << >> /\ cameraWriters = << >> /\ onHoverCalled = << >>
    /\ lastEvent = "mount"
    /\ GenIdle
    /\ ScaleIdle
    /\ TickIdle

\* One call of the Galaxy useFrame callback with frame delta `delta`
GalaxyTick ==
    /\ frames < MaxGalaxyTicks
    /\ \E delta \in GalaxyDeltas :
         LET s == GalaxyFrame(SceneState, exploreMode, hoveringWisdom, hoveringGolden,
                              mouse, delta)
         IN  /\ opacity1' = s.opacity1
             /\ opacity2' = s.opacity2
             /\ frameLog' = s.frameLog
             /\ tickDelta' = delta
    /\ frames' = frames + 1
    /\ lastEvent' = "GalaxyFrame"
    /\ UNCHANGED <<exploreMode, hoveringWisdom, hoveringGolden, cursor, hovered, mouse,
                   wisdomScale, goldenScale, cameraPosition, cameraLookAt, targetPos,
                   pointClouds, cameraWriters, onHoverCalled>>
    /\ UNCHANGED <<orbitSystem, orbitActive, orbitX, orbitZ, orbitY, orbitDen,
                   orbitAngle, orbitTicks>>
    /\ UNCHANGED <<genVars, scaleVars>>

SpecGalaxy == GalaxyInit /\ [][GalaxyTick]_vars

----------------------------------------------------------------------------
(* Step 1 of the WisdomSystem / GoldenSystem frame callback alone: the     *)
(* orbit of the group's position about the vertical axis.                  *)
(*                                                                         *)
(* Angles are whole multiples of the angle whose cosine is 4/5 and sine    *)
(* 3/5, so that Math.cos and Math.sin are exact rationals: k units have    *)
(* cosine and sine CosSin(k).cos / 5^k and CosSin(k).sin / 5^k.  A delta   *)
(* is a whole number of the time unit in which the system's slower         *)
(* rotation speed turns one angle unit; the speeds 0.1 / 0.05 (Wisdom) and *)
(* 0.12 / 0.08 (Golden) are then 2 / 1 and 3 / 2 units per time unit.      *)
(* position.x and position.z are orbitX / orbitDen and orbitZ / orbitDen   *)
(* tenths, position.y is orbitY tenths.                                    *)

MaxTurns == 3
MaxOrbitTicks == 5
OrbitDeltas == {0, 1, 2}

\* const rotationSpeed = active ? 0.1 : 0.05 (Wisdom), active ? 0.12 : 0.08 (Golden)
RotationSpeed(system, active) ==
    IF system = "wisdom" THEN (IF active THEN 2 ELSE 1)
    ELSE (IF active THEN 3 ELSE 2)

\* Math.cos(angle), Math.sin(angle) for angle = k units, over hyp = 5^k
RECURSIVE CosSin(_)
CosSin(k) ==
    IF k = 0 THEN [cos |-> 1, sin |-> 0, hyp |-> 1]
    ELSE LET p == CosSin(k - 1)
         IN  [cos |-> 4 * p.cos - 3 * p.sin, sin |-> 3 * p.cos + 4 * p.sin, hyp |-> 5 * p.hyp]

\* Mutant of RotateXZ: a sign slip in the z row of the rotation.
RotateXZSignSlip(x, z, c, s) ==
    [x |-> x * c - z * s, z |-> x * s - z * c]

\* position.x = x * cos - z * sin; position.z = x * sin + z * cos, both from
\* the x and z read before either is written
RotateXZ(x, z, c, s) ==
    [x |-> x * c - z * s, z |-> x * s + z * c]

\* useEffect: position.copy(initialPos), then applyEuler(tilt), in tenths:
\* getSpiralPosition(2.5, 1) tilted by 0.2 is (-0.29, 0.49, -2.43),
\* getSpiralPosition(3.2, 2) tilted by 0.15 is (1.44, -0.43, 2.83).
MountPosition(system) ==
    IF system = "wisdom" THEN <<-3, 5, -24>> ELSE <<14, -4, 28>>

OrbitInit ==
    /\ orbitSystem \in {"wisdom", "golden"}
    /\ orbitActive \in BOOLEAN
    /\ orbitX = MountPosition(orbitSystem)[1]
    /\ orbitY = MountPosition(orbitSystem)[2]
    /\ orbitZ = MountPosition(orbitSystem)[3]
    /\ orbitDen = 1
    /\ orbitAngle = 0
    /\ orbitTicks = 0
    /\ tickDelta = 0
    /\ MainIdle
    /\ GenIdle
    /\ ScaleIdle

\* Step 1 of the system's useFrame with frame delta `delta`
OrbitTick ==
    /\ orbitTicks < MaxOrbitTicks
    /\ \E delta \in OrbitDeltas :
         LET angle == delta * RotationSpeed(orbitSystem, orbitActive)
             t == CosSin(angle)
             p == RotateXZ(orbitX, orbitZ, t.cos, t.sin)
         IN  /\ orbitAngle + angle <= MaxTurns
             /\ orbitX' = p.x
             /\ orbitZ' = p.z
             /\ orbitDen' = orbitDen * t.hyp
             /\ orbitAngle' = orbitAngle + angle
             /\ tickDelta' = delta
    /\ orbitTicks' = orbitTicks + 1
    /\ UNCHANGED <<orbitSystem, orbitActive, orbitY, mainVars, genVars, scaleVars>>

\* A re-render of the system with the other value of `active`
OrbitSetActive ==
    /\ orbitActive' = ~orbitActive
    /\ UNCHANGED <<tickDelta, orbitSystem, orbitX, orbitZ, orbitY, orbitDen, orbitAngle,
                   orbitTicks, mainVars, genVars, scaleVars>>

OrbitNext == OrbitTick \/ OrbitSetActive

SpecOrbit == OrbitInit /\ [][OrbitNext]_vars

----------------------------------------------------------------------------
(* Claims *)

AfterFrame == lastEvent = "Frame"

\* C1 (as stated): whenever explore mode is off, neither hover flag is true.
C1_NoHoverOutsideExplore ==
    ~exploreMode => (~hoveringWisdom /\ ~hoveringGolden)

PointerEvents ==
    {"WisdomPointerOver", "WisdomPointerOut", "GoldenPointerOver", "GoldenPointerOut"}

\* C2: a pointer-enter or pointer-leave step taken while explore mode is off
\* calls no onHover and changes neither hover flag; taken while explore mode
\* is on, pointer-enter sets the system's own flag and pointer-leave clears it.
C2_HoverGatedByExplore ==
    [][ /\ (lastEvent' \in PointerEvents /\ ~exploreMode)
            => (onHoverCalled' = << >> /\ UNCHANGED <<hoveringWisdom, hoveringGolden>>)
        /\ (lastEvent' = "WisdomPointerOver" /\ exploreMode) => hoveringWisdom'
        /\ (lastEvent' = "WisdomPointerOut" /\ exploreMode) => ~hoveringWisdom'
        /\ (lastEvent' = "GoldenPointerOver" /\ exploreMode) => hoveringGolden'
        /\ (lastEvent' = "GoldenPointerOut" /\ exploreMode) => ~hoveringGolden'
      ]_vars

\* C2 witness: a pointer-leave on the Wisdom system was ignored in orbit mode,
\* the flag set earlier in explore mode still standing.
C2_Witness ==
    /\ lastEvent = "WisdomPointerOut"
    /\ ~exploreMode
    /\ hoveringWisdom
    /\ onHoverCalled = << >>

RanAt(name) == {i \in 1..Len(frameLog) : frameLog[i] = name}

Before(a, b) == \A i \in RanAt(a), j \in RanAt(b) : i < j

\* C3 (as stated): in a frame the two system updates run first, then the
\* Galaxy opacity update, then the CameraRig update.
C3_SystemsThenOpacityThenCamera ==
    AfterFrame =>
        /\ Before("WisdomSystem", "Galaxy")
        /\ Before("GoldenSystem", "Galaxy")
        /\ Before("Galaxy", "CameraRig")

\* C3 (amended): every frame runs each of the four callbacks once, in the
\* order Galaxy opacity, WisdomSystem, GoldenSystem, CameraRig.
C3_FrameOrder ==
    AfterFrame =>
        /\ \A n \in {"Galaxy", "WisdomSystem", "GoldenSystem", "CameraRig"} :
               Cardinality(RanAt(n)) = 1
        /\ Before("Galaxy", "WisdomSystem")
        /\ Before("WisdomSystem", "GoldenSystem")
        /\ Before("GoldenSystem", "CameraRig")

C3_Witness ==
    /\ AfterFrame
    /\ exploreMode
    /\ wisdomScale > 1
    /\ opacity1 < ScaleUnit

\* C4 (as stated): from scale 0.001, with explore mode on and a fixed positive
\* delta, every tick strictly increases the scale and keeps it at most 1.
C4_ScaleRisesWithinOne ==
    [][ScaleTick =>
          /\ scaleNum' > scaleNum * (scaleDen' \div scaleDen)
          /\ scaleNum' <= ScaleUnit * scaleDen']_vars

\* C5: after a frame in orbit mode the desired camera position is
\* (mouse.x * 5, mouse.y * 2 + 6, 12), whatever the focus target.
C5_OrbitTargetIgnoresFocus ==
    (AfterFrame /\ ~exploreMode) =>
        targetPos = <<5 * PosUnit * mouse[1], 2 * PosUnit * mouse[2] + 6 * PosUnit, 12 * PosUnit>>

C5_Witness ==
    /\ AfterFrame
    /\ ~exploreMode
    /\ getCurrentFocus(hoveringWisdom, hoveringGolden) = "golden"
    /\ mouse # <<0, 0>>

\* C6 (as stated): after a frame in explore mode with no focus target the
\* desired camera position is the baseline (0, 1.5, 3.5), whatever the pointer.
C6_NoFocusTargetIsFixed ==
    (AfterFrame /\ exploreMode /\ ~hoveringWisdom /\ ~hoveringGolden) =>
        targetPos = <<0, 150, 350>>

\* C6 (amended): after a frame in explore mode the desired camera position is
\* the focus target's base position - (0, 1.5, 3.5) for none, (-1, 1.2, 3.8)
\* for wisdom, (1, 1.0, 4.0) for golden - plus (0.1 * mouse.x, 0.1 * mouse.y, 0),
\* for all three focus targets.
C6_PointerShiftsEveryExploreTarget ==
    (AfterFrame /\ exploreMode) =>
        LET base == IF hoveringWisdom THEN <<-100, 120, 380>>
                    ELSE IF hoveringGolden THEN <<100, 100, 400>>
                    ELSE <<0, 150, 350>>
        IN  targetPos = <<base[1] + 10 * mouse[1], base[2] + 10 * mouse[2], base[3]>>

C6_Witness ==
    /\ AfterFrame
    /\ exploreMode
    /\ ~hoveringWisdom /\ ~hoveringGolden
    /\ mouse # <<0, 0>>
    /\ targetPos # <<0, 150, 350>>

\* C7 (as stated): a frame's only camera write is CameraRig's, and after the
\* frame the camera looks at the origin.
C7_OnlyCameraRigWrites ==
    AfterFrame => (cameraWriters = <<"CameraRig">> /\ cameraLookAt = Origin)

\* C7 (amended): in every frame CameraRig writes the camera pose exactly once
\* and is the last to write it, and after the frame the camera looks at the
\* origin; OrbitControls writes the pose too, earlier in the frame.
C7_CameraRigWritesLast ==
    AfterFrame =>
        /\ Cardinality({i \in 1..Len(cameraWriters) : cameraWriters[i] = "CameraRig"}) = 1
        /\ cameraWriters[Len(cameraWriters)] = "CameraRig"
        /\ cameraLookAt = Origin

C7_Witness ==
    /\ AfterFrame
    /\ cameraWriters = <<"OrbitControls", "CameraRig">>
    /\ cameraPosition # <<0, 6 * PosUnit, 12 * PosUnit>>

\* C8: every point cloud is still the one generated at mount.
C8_GeneratedOncePerMount ==
    \A c \in Clouds : pointClouds[c] = 1

C8_Witness ==
    /\ AfterFrame
    /\ exploreMode
    /\ hoveringWisdom
    /\ hoveringGolden
    /\ frames = MaxFrames

Abs(x) == IF x < 0 THEN -x ELSE x

WrittenPoints == 0..(genI - 1)

PointX(i) == positions[3 * i + 1].v

PointZ(i) == positions[3 * i + 3].v

\* R * (1 + randomness), times PosDen
AxisBound == genOptions.radius * (1 + genOptions.randomness) * PosDen

\* C9 (as stated): with radius > 0 every generated point has
\* sqrt(x^2 + z^2) <= radius * (1 + randomness).
C9_HorizontalDistanceBound ==
    (genPc # "call" /\ genOptions.radius > 0) =>
        \A i \in WrittenPoints :
            PointX(i) * PointX(i) + PointZ(i) * PointZ(i) <= AxisBound * AxisBound

\* C9 (amended): with radius > 0 every generated point has
\* |x| <= radius * (1 + randomness) and |z| <= radius * (1 + randomness), so
\* sqrt(x^2 + z^2) <= sqrt(2) * radius * (1 + randomness).
C9_PerAxisBound ==
    (genPc # "call" /\ genOptions.radius > 0) =>
        \A i \in WrittenPoints :
            /\ Abs(PointX(i)) <= AxisBound
            /\ Abs(PointZ(i)) <= AxisBound
            /\ PointX(i) * PointX(i) + PointZ(i) * PointZ(i) <= 2 * AxisBound * AxisBound

\* C9 witness: a returned cloud with a point farther than radius * (1 + randomness)
C9_Witness ==
    /\ genResult = "returned"
    /\ genOptions.radius > 0
    /\ \E i \in WrittenPoints :
           PointX(i) * PointX(i) + PointZ(i) * PointZ(i) > AxisBound * AxisBound

\* C10 (as stated): a call with radius <= 0 or count < 0 does not return a
\* cloud, and no array ever holds NaN.
C10_InvalidParametersFail ==
    /\ (genOptions.radius <= 0 \/ genCount < 0) => genResult # "returned"
    /\ \A k \in DOMAIN colors : ~colors[k].nan
    /\ \A k \in DOMAIN positions : ~positions[k].nan

\* C11: a call with count >= 0 ends by returning, never by an error, and the
\* two arrays it returns have length 3 * count each, every slot of which was
\* written by the loop; for count = 0 both are empty.
C11_ReturnsCountTriples ==
    (genPc = "done" /\ genCount >= 0) =>
        /\ genResult = "returned"
        /\ Len(positions) = 3 * genCount
        /\ Len(colors) = 3 * genCount
        /\ genWritten = 1..(3 * genCount)
        /\ genCount = 0 => (positions = << >> /\ colors = << >>)

C11_Witness ==
    /\ genResult = "returned"
    /\ genCount = 2
    /\ Len(positions) = 6
    /\ genWritten = 1..6

\* C12 (as stated): a Galaxy frame update whose delta is zero or negative
\* leaves the opacity of both layers unchanged.
C12_NonPositiveDeltaIsNoOp ==
    [][(GalaxyTick /\ tickDelta' <= 0) => UNCHANGED <<opacity1, opacity2>>]_vars

\* C13: the targets are 1.0 and 0.4 when neither hover flag is true, and 10%
\* of 1.0 and 5% of 0.4 when at least one is; a Galaxy frame update with
\* delta dt sets each opacity to lerp(opacity, target, dt * 4).
C13_TwoPointTargetLerp ==
    [][GalaxyTick =>
          LET focused == hoveringWisdom \/ hoveringGolden
              full1 == 1000
              full2 == 400
              target1 == IF focused THEN (10 * full1) \div 100 ELSE full1
              target2 == IF focused THEN (5 * full2) \div 100 ELSE full2
              t == 4 * tickDelta'
          IN  /\ opacity1' = ((12 - t) * opacity1 + t * target1) \div 12
              /\ opacity2' = ((12 - t) * opacity2 + t * target2) \div 12
      ]_vars

\* C13 witness: a frame with positive delta dimmed both layers part of the
\* way toward the low targets while only the Golden system was hovered.
C13_Witness ==
    /\ lastEvent = "GalaxyFrame"
    /\ hoveringGolden /\ ~hoveringWisdom
    /\ tickDelta = 1
    /\ opacity1 = 700
    /\ opacity2 = 273

\* C14: every orbit step of either system, in either mode and for every
\* delta, leaves position.y unchanged and preserves x^2 + z^2 (the new
\* numerators are over the old denominator times h = orbitDen' / orbitDen).
C14_OrbitPreservesRadius ==
    [][OrbitTick =>
          LET h == orbitDen' \div orbitDen
          IN  /\ orbitY' = orbitY
              /\ orbitX' * orbitX' + orbitZ' * orbitZ'
                     = (orbitX * orbitX + orbitZ * orbitZ) * h * h
      ]_vars

\* C14 witness: the Golden system turned by a non-trivial angle in explore
\* mode and its position moved.
C14_Witness ==
    /\ orbitSystem = "golden"
    /\ orbitActive
    /\ orbitAngle = 3
    /\ tickDelta = 1
    /\ orbitDen = 125
    /\ <<orbitX, orbitZ>> # <<14 * 125, 28 * 125>>

\* C15 (as stated): the scale of either system changes only in a frame; an
\* explore toggle, a pointer event and the re-render they cause leave both
\* scales as they were.
C15_ScaleChangesOnlyInFrames ==
    [][lastEvent' # "Frame" => UNCHANGED <<wisdomScale, goldenScale>>]_vars

\* C16: hoveringWisdom changes only in a WisdomSystem pointer handler and
\* hoveringGolden only in a GoldenSystem pointer handler; every other step
\* (a pointer event on the other system, an explore toggle, a pointer move,
\* a frame) leaves the flag unchanged.
C16_SingleWriterPerFlag ==
    [][ /\ hoveringWisdom' # hoveringWisdom
            => lastEvent' \in {"WisdomPointerOver", "WisdomPointerOut"}
        /\ hoveringGolden' # hoveringGolden
            => lastEvent' \in {"GoldenPointerOver", "GoldenPointerOut"}
      ]_vars

\* C16 witness: the Golden handler cleared its own flag in explore mode and
\* the Wisdom flag, set earlier, still stands.
C16_Witness ==
    /\ lastEvent = "GoldenPointerOut"
    /\ exploreMode
    /\ onHoverCalled = <<[system |-> "golden", hovering |-> FALSE]>>
    /\ hoveringWisdom
    /\ ~hoveringGolden

\* C17 (as stated): the cursor style is 'pointer' exactly when at least one
\* hover flag is true, and 'auto' otherwise (the style is unset until a
\* handler first writes it, which the browser shows as auto).
C17_CursorMatchesHover ==
    IF hoveringWisdom \/ hoveringGolden
    THEN cursor = "pointer"
    ELSE cursor \in {"auto", ""}

\* C18: the focus target is 'wisdom' whenever hoveringWisdom is true,
\* 'golden' exactly when hoveringWisdom is false and hoveringGolden is true,
\* and none exactly when both are false - whatever the last event was.
C18_WisdomTakesPrecedence ==
    LET focus == getCurrentFocus(hoveringWisdom, hoveringGolden)
    IN  /\ hoveringWisdom <=> focus = "wisdom"
        /\ (~hoveringWisdom /\ hoveringGolden) <=> focus = "golden"
        /\ (~hoveringWisdom /\ ~hoveringGolden) <=> focus = ""

\* C18 witness: both flags are true, the Golden system was hovered last, and
\* the camera rig of the next frame was still given the Wisdom base position.
C18_Witness ==
    /\ hoveringWisdom
    /\ hoveringGolden
    /\ exploreMode
    /\ AfterFrame
    /\ targetPos[3] = 380

====
